---- MODULE Spec2Model ----
(***************************************************************************)
(* Model of the BPMS prototype firmware (src/main.c): the main loop that   *)
(* reads the cell voltages, balances, averages, and fills the BMS page,    *)
(* the millisecond timer interrupt, and the packet tables of the header    *)
(* part of the file.                                                       *)
(*                                                                         *)
(* main.h, ltc6804.c, pec.c and adc.c are not part of the sources: the     *)
(* constants N_CELLS, N_SAMPLES, N_CELLS_FINAL, N_ADC_CHANNELS and         *)
(* BALANCE_THRESHOLD, the globals g_discharge1/g_discharge2 and the        *)
(* driver call ltc6804_read_cell_voltages are modelled from the            *)
(* specification text.                                                     *)
(***************************************************************************)
EXTENDS Integers, Sequences, FiniteSets

(***************************************************************************)
(* Program constants.                                                      *)
(***************************************************************************)
N_CELLS == 16
N_SAMPLES == 4
N_CELLS_FINAL == 8
N_ADC_CHANNELS == 24
BALANCE_THRESHOLD == 50

(***************************************************************************)
(* Bounds of the model.                                                    *)
(***************************************************************************)
MaxCycles == 4
MaxMs == 1

\* Raw readings the pack can present to the measurement chip.
Volts == {0, 204}

Slots == 0 .. (N_CELLS - 1)
Lower == 0 .. 3
Upper == 12 .. 15
Populated == Lower \cup Upper

(***************************************************************************)
(* Machine arithmetic: 16-bit unsigned values and the C bit operators.     *)
(***************************************************************************)
W16 == 65536

\* (unsigned int16) x
U16(x) == x % W16

\* int16 x  (two's complement reinterpretation of a 16-bit pattern)
I16(x) == IF (x % W16) >= 32768 THEN (x % W16) - W16 ELSE x % W16

\* (int8) x
I8(x) == IF (x % 256) >= 128 THEN (x % 256) - 256 ELSE x % 256

RECURSIVE Pow2(_)
Pow2(n) == IF n = 0 THEN 1 ELSE 2 * Pow2(n - 1)

\* 1 << n, as a 16-bit pattern
Shl(x, n) == (x * Pow2(n)) % W16

RECURSIVE BitAndW(_, _, _)
BitAndW(x, y, w) ==
    IF w = 0 THEN 0
    ELSE (IF (x % 2 = 1) /\ (y % 2 = 1) THEN 1 ELSE 0)
         + 2 * BitAndW(x \div 2, y \div 2, w - 1)

RECURSIVE BitOrW(_, _, _)
BitOrW(x, y, w) ==
    IF w = 0 THEN 0
    ELSE (IF (x % 2 = 1) \/ (y % 2 = 1) THEN 1 ELSE 0)
         + 2 * BitOrW(x \div 2, y \div 2, w - 1)

\* x & y, x | y, ~x on 16-bit patterns
BitAnd(x, y) == BitAndW(x, y, 16)
BitOr(x, y) == BitOrW(x, y, 16)
BitNot(x) == (W16 - 1) - (x % W16)

\* bit k of x
Bit(x, k) == (x \div Pow2(k)) % 2

(***************************************************************************)
(* The packet tables (x-macros of the CAN_TELEM_H part of the file).       *)
(* Each entry: name, identifier, length, page and offset into the page.    *)
(***************************************************************************)
N_CAN_ID == 8
N_TELEM_ID == 3
N_CAN_MISC == 9

\* a table in which identifier 0x602 is used twice
CAN_ID_TABLE_Dup ==
    << [name |-> "CAN_BPS_VOLTAGE1", id |-> 1536, len |-> 8,
        page |-> "g_bps_voltage_page", offset |-> 0],
       [name |-> "CAN_BPS_VOLTAGE2", id |-> 1537, len |-> 8,
        page |-> "g_bps_voltage_page", offset |-> 8],
       [name |-> "CAN_BPS_VOLTAGE3", id |-> 1538, len |-> 8,
        page |-> "g_bps_voltage_page", offset |-> 16],
       [name |-> "CAN_BPS_VOLTAGE4", id |-> 1538, len |-> 6,
        page |-> "g_bps_voltage_page", offset |-> 24],
       [name |-> "CAN_BPS_TEMPERATURE1", id |-> 1544, len |-> 8,
        page |-> "g_bps_temperature_page", offset |-> 0],
       [name |-> "CAN_BPS_TEMPERATURE2", id |-> 1545, len |-> 8,
        page |-> "g_bps_temperature_page", offset |-> 8],
       [name |-> "CAN_BPS_TEMPERATURE3", id |-> 1546, len |-> 8,
        page |-> "g_bps_temperature_page", offset |-> 16],
       [name |-> "CAN_BPS_CUR_BAL_STAT", id |-> 1547, len |-> 8,
        page |-> "g_bps_cur_bal_stat_page", offset |-> 0] >>

\* a table whose last voltage packet is 8 bytes long: it ends at 32, past the
\* 30 bytes of the page
CAN_ID_TABLE_Long ==
    << [name |-> "CAN_BPS_VOLTAGE1", id |-> 1536, len |-> 8,
        page |-> "g_bps_voltage_page", offset |-> 0],
       [name |-> "CAN_BPS_VOLTAGE2", id |-> 1537, len |-> 8,
        page |-> "g_bps_voltage_page", offset |-> 8],
       [name |-> "CAN_BPS_VOLTAGE3", id |-> 1538, len |-> 8,
        page |-> "g_bps_voltage_page", offset |-> 16],
       [name |-> "CAN_BPS_VOLTAGE4", id |-> 1539, len |-> 8,
        page |-> "g_bps_voltage_page", offset |-> 24],
       [name |-> "CAN_BPS_TEMPERATURE1", id |-> 1544, len |-> 8,
        page |-> "g_bps_temperature_page", offset |-> 0],
       [name |-> "CAN_BPS_TEMPERATURE2", id |-> 1545, len |-> 8,
        page |-> "g_bps_temperature_page", offset |-> 8],
       [name |-> "CAN_BPS_TEMPERATURE3", id |-> 1546, len |-> 8,
        page |-> "g_bps_temperature_page", offset |-> 16],
       [name |-> "CAN_BPS_CUR_BAL_STAT", id |-> 1547, len |-> 8,
        page |-> "g_bps_cur_bal_stat_page", offset |-> 0] >>

\* identifiers 0x600-0x603, 0x608-0x60B
CAN_ID_TABLE ==
    << [name |-> "CAN_BPS_VOLTAGE1", id |-> 1536, len |-> 8,
        page |-> "g_bps_voltage_page", offset |-> 0],
       [name |-> "CAN_BPS_VOLTAGE2", id |-> 1537, len |-> 8,
        page |-> "g_bps_voltage_page", offset |-> 8],
       [name |-> "CAN_BPS_VOLTAGE3", id |-> 1538, len |-> 8,
        page |-> "g_bps_voltage_page", offset |-> 16],
       [name |-> "CAN_BPS_VOLTAGE4", id |-> 1539, len |-> 6,
        page |-> "g_bps_voltage_page", offset |-> 24],
       [name |-> "CAN_BPS_TEMPERATURE1", id |-> 1544, len |-> 8,
        page |-> "g_bps_temperature_page", offset |-> 0],
       [name |-> "CAN_BPS_TEMPERATURE2", id |-> 1545, len |-> 8,
        page |-> "g_bps_temperature_page", offset |-> 8],
       [name |-> "CAN_BPS_TEMPERATURE3", id |-> 1546, len |-> 8,
        page |-> "g_bps_temperature_page", offset |-> 16],
       [name |-> "CAN_BPS_CUR_BAL_STAT", id |-> 1547, len |-> 8,
        page |-> "g_bps_cur_bal_stat_page", offset |-> 0] >>

\* identifiers 0x0B, 0x0D, 0x11
TELEM_ID_TABLE ==
    << [name |-> "TELEM_BPS_VOLTAGE", id |-> 11, len |-> 30,
        page |-> "g_bps_voltage_page"],
       [name |-> "TELEM_BPS_TEMPERATURE", id |-> 13, len |-> 24,
        page |-> "g_bps_temperature_page"],
       [name |-> "TELEM_BPS_CUR_BAL_STAT", id |-> 17, len |-> 8,
        page |-> "g_bps_cur_bal_stat_page"] >>

\* identifiers 0x777, 0x778, 0x888, 0x501, 0x303, 0x771-0x774
CAN_MISC_TABLE ==
    << [name |-> "COMMAND_PMS_DISCONNECT_ARRAY", id |-> 1911],
       [name |-> "RESPONSE_PMS_DISCONNECT_ARRAY", id |-> 1912],
       [name |-> "COMMAND_ENABLE_BALANCING", id |-> 2184],
       [name |-> "COMMAND_EVDC_DRIVE", id |-> 1281],
       [name |-> "COMMAND_BPS_TRIP_SIGNAL", id |-> 771],
       [name |-> "RESPONSE_MPPT1", id |-> 1905],
       [name |-> "RESPONSE_MPPT2", id |-> 1906],
       [name |-> "RESPONSE_MPPT3", id |-> 1907],
       [name |-> "RESPONSE_MPPT4", id |-> 1908] >>

TelemPages == {TELEM_ID_TABLE[k].page : k \in 1 .. Len(TELEM_ID_TABLE)}

\* TELEM_ID_TABLE(EXPAND_AS_TELEM_PAGE_DECLARATIONS): static int8 d[c] for
\* every entry: the zero-initialised page buffers
TELEM_PAGE_DECLARATIONS ==
    [pg \in TelemPages |->
        LET k == CHOOSE k \in 1 .. Len(TELEM_ID_TABLE) :
                     TELEM_ID_TABLE[k].page = pg
        IN  [b \in 1 .. TELEM_ID_TABLE[k].len |-> 0]]

\* EXPAND_AS_..._ID_ENUM / _LEN_ENUM: the length declared with an identifier
LenOfId(table, id) ==
    LET k == CHOOSE k \in 1 .. Len(table) : table[k].id = id
    IN  table[k].len

(***************************************************************************)
(* State.                                                                  *)
(***************************************************************************)
VARIABLES
    pc,            \* position of main in its loop
    cycle,         \* number of the current iteration of while (true)
    n_avg,         \* completed runs of the averaging loop of print_cell_voltages
    pack,          \* the voltages the pack presents to the measurement chip
    g_cell,        \* g_cell[N_CELLS]
    g_discharge1,  \* discharge mask of the Lower cells
    g_discharge2,  \* discharge mask of the Upper cells
    min_idx,       \* min_idx of the last call of balance
    CSBI1,         \* level of select line CSBI1 (0 low, 1 high)
    CSBI2,         \* level of select line CSBI2
    cfg_writes,    \* the ltc6804_write_config calls of the last balance
    g_bms_page,    \* g_bms_page
    g_ms,          \* g_ms
    telem_pages    \* the telemetry page buffers g_bps_..._page

vars == <<pc, cycle, n_avg, pack, g_cell, g_discharge1, g_discharge2,
          min_idx, CSBI1, CSBI2, cfg_writes, g_bms_page, g_ms, telem_pages>>

ZeroSamples == [j \in 1 .. N_SAMPLES |-> 0]

\* g_temps is written only by convert_adc_data_to_temps, which main never calls.
g_temps == [i \in 0 .. (N_ADC_CHANNELS - 1) |-> 0]

\* The discharge field init_cells gives a cell; the other cells keep the zero
\* of static storage.
ConfiguredDischarge(i) ==
    CASE i = 0 -> 0
      [] i = 1 -> 2
      [] i = 2 -> 4
      [] i = 3 -> 8
      [] OTHER -> 0

\* g_cell after init_cells: samples and average_voltage are not assigned and
\* keep the zero of static storage.
init_cells ==
    [i \in Slots |->
        [voltage |-> 0, temperature |-> 0, ov_flag |-> 0, uv_flag |-> 0,
         ot_flag |-> 0, discharge |-> ConfiguredDischarge(i),
         samples |-> ZeroSamples, average_voltage |-> 0]]

ZeroPage ==
    [voltages |-> [i \in 0 .. (N_CELLS_FINAL - 1) |-> 0],
     temps |-> [i \in 0 .. (N_ADC_CHANNELS - 1) |-> 0],
     current |-> 0,
     discharge |-> 0]

\* The state when main enters while (true), for a set of possible packs.
\* Both select lines are high: balance releases each line after its write,
\* and the driver calls before the loop end their transactions the same way.
InitWith(packs) ==
    /\ pc = "read"
    /\ cycle = 1
    /\ n_avg = 0
    /\ pack \in packs
    /\ g_cell = init_cells
    /\ g_discharge1 = 0
    /\ g_discharge2 = 0
    /\ min_idx = 0
    /\ CSBI1 = 1
    /\ CSBI2 = 1
    /\ cfg_writes = << >>
    /\ g_bms_page = ZeroPage
    /\ g_ms = 0
    /\ telem_pages = TELEM_PAGE_DECLARATIONS

\* At power-up the cells of a group read the same.
GroupPacks ==
    {[c \in Populated |-> IF c \in Lower THEN vl ELSE vu] :
        vl \in Volts, vu \in Volts}

Init == InitWith(GroupPacks)

(***************************************************************************)
(* ltc6804_read_cell_voltages: the driver stores the reading of every      *)
(* populated slot in its raw voltage.                                      *)
(***************************************************************************)
ltc6804_read_cell_voltages(cells) ==
    [i \in Slots |->
        IF i \in Populated THEN [cells[i] EXCEPT !.voltage = U16(pack[i])]
        ELSE cells[i]]

(***************************************************************************)
(* get_lowest_voltage_cell_index                                           *)
(***************************************************************************)
ScanOrder == <<0, 1, 2, 3, 12, 13, 14, 15>>

\* a scan in which the first cell with the least value wins (< for <=)
RECURSIVE LowestScanFirstWins(_, _, _, _)
LowestScanFirstWins(cells, order, k, lowest) ==
    IF k > Len(order) THEN lowest
    ELSE LowestScanFirstWins(cells, order, k + 1,
                             IF cells[order[k]].average_voltage
                                  < cells[lowest].average_voltage
                             THEN order[k] ELSE lowest)

RECURSIVE LowestScan(_, _, _, _)
LowestScan(cells, order, k, lowest) ==
    IF k > Len(order) THEN lowest
    ELSE LowestScan(cells, order, k + 1,
                    IF cells[order[k]].average_voltage
                         <= cells[lowest].average_voltage
                    THEN order[k] ELSE lowest)

\* a scan that stops after the Lower cells
LowestOfLowerOnly(cells) == LowestScan(cells, <<0, 1, 2, 3>>, 1, 0)

get_lowest_voltage_cell_index(cells) == LowestScan(cells, ScanOrder, 1, 0)

(***************************************************************************)
(* The averaging loop of print_cell_voltages.                              *)
(***************************************************************************)
\* the inner loop over j: returns <<samples, sum>>.  sum is an unsigned
\* int32: N_SAMPLES 16-bit samples cannot overflow it, so it is kept exact.
RECURSIVE ShiftLoop(_, _, _)
ShiftLoop(samples, sum, j) ==
    IF j >= N_SAMPLES - 1 THEN <<samples, sum>>
    ELSE ShiftLoop([samples EXCEPT ![j + 1] = samples[j + 2]],
                   sum + samples[j + 1],
                   j + 1)

\* a loop body that divides by the number of shifted entries
AverageCellOffByOne(c) ==
    LET r == ShiftLoop(c.samples, 0, 0)
        sum == r[2] + c.voltage
    IN  [c EXCEPT !.samples = [r[1] EXCEPT ![N_SAMPLES] = c.voltage],
                  !.average_voltage = U16(sum \div (N_SAMPLES - 1))]

\* the body of the loop over i, for one cell
AverageCell(c) ==
    LET r == ShiftLoop(c.samples, 0, 0)
        sum == r[2] + c.voltage
    IN  [c EXCEPT !.samples = [r[1] EXCEPT ![N_SAMPLES] = c.voltage],
                  !.average_voltage = U16(sum \div N_SAMPLES)]

AverageAll(cells) == [i \in Slots |-> AverageCell(cells[i])]

(***************************************************************************)
(* The two decision loops of balance.                                      *)
(***************************************************************************)
\* a condition that compares the raw voltages (as get_highest_voltage_cell_index
\* does) instead of the averages
OverThresholdRaw(cells, i, ref) ==
    U16(cells[i].voltage - cells[ref].voltage) > BALANCE_THRESHOLD

\* the condition of the if: an unsigned 16-bit subtraction and comparison
OverThreshold(cells, i, ref) ==
    U16(cells[i].average_voltage - cells[ref].average_voltage)
        > BALANCE_THRESHOLD

\* a decision loop that sets bits and never clears them
RECURSIVE DecisionLoopLatching(_, _, _, _, _, _)
DecisionLoopLatching(cells, ref, d, i, hi, base) ==
    IF i > hi THEN d
    ELSE DecisionLoopLatching(cells, ref,
                              IF OverThreshold(cells, i, ref)
                              THEN BitOr(d, Shl(1, i - base))
                              ELSE d,
                              i + 1, hi, base)

\* for (i = lo ; i <= hi ; i++) on mask d, bit i - base
RECURSIVE DecisionLoop(_, _, _, _, _, _)
DecisionLoop(cells, ref, d, i, hi, base) ==
    IF i > hi THEN d
    ELSE DecisionLoop(cells, ref,
                      IF OverThreshold(cells, i, ref)
                      THEN BitOr(d, Shl(1, i - base))
                      ELSE BitAnd(d, BitNot(Shl(1, i - base))),
                      i + 1, hi, base)

(***************************************************************************)
(* Steps of main's loop.                                                   *)
(***************************************************************************)
\* line 262
ReadCellVoltages ==
    /\ pc = "read"
    /\ g_cell' = ltc6804_read_cell_voltages(g_cell)
    /\ pc' = "balance"
    /\ UNCHANGED <<cycle, n_avg, pack, g_discharge1, g_discharge2,
                   min_idx, CSBI1, CSBI2, cfg_writes, g_bms_page, g_ms,
                   telem_pages>>

\* a second write that sends the Upper mask
ConfigWritesOwnMask(d1, d2, c2) ==
    << [csbi1 |-> 0, csbi2 |-> c2, value |-> d1],
       [csbi1 |-> 1, csbi2 |-> 0, value |-> d2] >>

\* lines 232-238: the two ltc6804_write_config calls, each with the levels
\* of the select lines during the call (c2: the level of CSBI2 on entry)
ConfigWrites(d1, d2, c2) ==
    << [csbi1 |-> 0, csbi2 |-> c2, value |-> d1],
       [csbi1 |-> 1, csbi2 |-> 0, value |-> d1] >>

\* a balance that stores the difference to the reference in the Lower
\* cells' averages (-= for -)
balanceStoringDifference ==
    /\ pc = "balance"
    /\ LET cells == ltc6804_read_cell_voltages(g_cell)
           m == get_lowest_voltage_cell_index(cells)
           d1 == DecisionLoop(cells, m, g_discharge1, 0, 3, 0)
           d2 == DecisionLoop(cells, m, g_discharge2, 12, 15, 12)
       IN  /\ g_cell' =
                 [i \in Slots |->
                     IF i \in Lower
                     THEN [cells[i] EXCEPT !.average_voltage =
                              U16(cells[i].average_voltage
                                    - cells[m].average_voltage)]
                     ELSE cells[i]]
           /\ min_idx' = m
           /\ g_discharge1' = d1
           /\ g_discharge2' = d2
           /\ cfg_writes' = ConfigWrites(d1, d2, CSBI2)
           /\ CSBI1' = 1
           /\ CSBI2' = 1
    /\ pc' = "print_cell_voltages"
    /\ UNCHANGED <<cycle, n_avg, pack, g_bms_page, g_ms,
                   telem_pages>>

\* line 265: balance()
balance ==
    /\ pc = "balance"
    /\ LET cells == ltc6804_read_cell_voltages(g_cell)
           m == get_lowest_voltage_cell_index(cells)
           d1 == DecisionLoop(cells, m, g_discharge1, 0, 3, 0)
           d2 == DecisionLoop(cells, m, g_discharge2, 12, 15, 12)
       IN  /\ g_cell' = cells
           /\ min_idx' = m
           /\ g_discharge1' = d1
           /\ g_discharge2' = d2
           /\ cfg_writes' = ConfigWrites(d1, d2, CSBI2)
           /\ CSBI1' = 1
           /\ CSBI2' = 1
    /\ pc' = "print_cell_voltages"
    /\ UNCHANGED <<cycle, n_avg, pack, g_bms_page, g_ms,
                   telem_pages>>

\* line 266: print_cell_voltages()
print_cell_voltages ==
    /\ pc = "print_cell_voltages"
    /\ g_cell' = AverageAll(g_cell)
    /\ n_avg' = n_avg + 1
    /\ pc' = "print_discharge_bits"
    /\ UNCHANGED <<cycle, pack, g_discharge1, g_discharge2, min_idx,
                   CSBI1, CSBI2, cfg_writes, g_bms_page, g_ms,
                   telem_pages>>

\* line 267: print_discharge_bits() only prints
print_discharge_bits ==
    /\ pc = "print_discharge_bits"
    /\ pc' = "update_bms_page"
    /\ UNCHANGED <<cycle, n_avg, pack, g_cell, g_discharge1,
                   g_discharge2, min_idx, CSBI1, CSBI2, cfg_writes,
                   g_bms_page, g_ms,
                   telem_pages>>

\* line 268: update_bms_page()
PageVoltages(old, cells) ==
    [i \in 0 .. (N_CELLS_FINAL - 1) |->
        IF i < N_CELLS THEN I16(cells[i].average_voltage) ELSE old[i]]

\* the two nibbles the other way round
PageDischargeSwapped(d1, d2) == BitOr(Shl(BitAnd(d1, 15), 4), BitAnd(d2, 15))

PageDischarge(d1, d2) == BitOr(Shl(BitAnd(d2, 15), 4), BitAnd(d1, 15))

update_bms_page ==
    /\ pc = "update_bms_page"
    /\ g_bms_page' =
          [voltages |-> PageVoltages(g_bms_page.voltages, g_cell),
           temps |-> [i \in 0 .. (N_ADC_CHANNELS - 1) |-> I8(g_temps[i])],
           current |-> 0,
           discharge |-> PageDischarge(g_discharge1, g_discharge2)]
    /\ pc' = "delay"
    /\ UNCHANGED <<cycle, n_avg, pack, g_cell, g_discharge1,
                   g_discharge2, min_idx, CSBI1, CSBI2, cfg_writes, g_ms,
                   telem_pages>>

\* The packs the pack can drift to during one delay: at most one cell changes.
Drift(p) ==
    {p} \cup {[p EXCEPT ![c] = v] : c \in Populated, v \in Volts}

\* line 297: delay_ms(200), then the next iteration
delay_ms ==
    /\ pc = "delay"
    /\ cycle < MaxCycles
    /\ cycle' = cycle + 1
    /\ pack' \in Drift(pack)
    /\ pc' = "read"
    /\ UNCHANGED <<n_avg, g_cell, g_discharge1, g_discharge2,
                   min_idx, CSBI1, CSBI2, cfg_writes, g_bms_page, g_ms,
                   telem_pages>>

\* an interrupt that clears more than its flag: it also clears g_discharge1
isr_timer2_clobbering ==
    /\ g_ms < MaxMs
    /\ g_ms' = g_ms + 1
    /\ g_discharge1' = 0
    /\ UNCHANGED <<pc, cycle, n_avg, pack, g_cell,
                   g_discharge2, min_idx, CSBI1, CSBI2, cfg_writes,
                   g_bms_page,
                   telem_pages>>

\* lines 166-170: the timer 2 interrupt
isr_timer2 ==
    /\ g_ms < MaxMs
    /\ g_ms' = g_ms + 1
    /\ UNCHANGED <<pc, cycle, n_avg, pack, g_cell, g_discharge1,
                   g_discharge2, min_idx, CSBI1, CSBI2, cfg_writes,
                   g_bms_page,
                   telem_pages>>

Next ==
    \/ ReadCellVoltages
    \/ balance
    \/ print_cell_voltages
    \/ print_discharge_bits
    \/ update_bms_page
    \/ delay_ms
    \/ isr_timer2

\* the steps of main, and everything but the millisecond counter
MainStep ==
    \/ ReadCellVoltages
    \/ balance
    \/ print_cell_voltages
    \/ print_discharge_bits
    \/ update_bms_page
    \/ delay_ms

MainVars == <<pc, cycle, n_avg, pack, g_cell, g_discharge1, g_discharge2,
              min_idx, CSBI1, CSBI2, cfg_writes, g_bms_page, telem_pages>>

Spec == Init /\ [][Next]_vars

(***************************************************************************)
(* The scenario of the specification: the Lower cells read 100, 100, 200   *)
(* and 90 from power-up; the Upper cells read at least as much.            *)
(***************************************************************************)
ScenarioLower == [i \in Lower |-> <<100, 100, 200, 90>>[i + 1]]

ScenarioPacks ==
    {[c \in Populated |-> IF c \in Lower THEN ScenarioLower[c] ELSE u] :
        u \in {200, 300}}

InitScenario == InitWith(ScenarioPacks)

SpecScenario == InitScenario /\ [][Next]_vars

(***************************************************************************)
(* Operators used to state the properties.                                 *)
(***************************************************************************)
RECURSIVE SeqSum(_)
SeqSum(q) == IF q = << >> THEN 0 ELSE Head(q) + SeqSum(Tail(q))

Avg(i) == g_cell[i].average_voltage

\* the least average of a set of cells
MinAvg(G) == CHOOSE m \in {Avg(i) : i \in G} : \A j \in G : m <= Avg(j)

\* balance has just returned
AfterBalance == pc = "print_cell_voltages"

\* update_bms_page has just returned
AfterPage == pc = "delay"

NoDuplicateId(table) ==
    \A a, b \in 1 .. Len(table) : a # b => table[a].id # table[b].id

\* the mask that has the configured discharge bits of the decided cells of G
RECURSIVE ConfiguredMask(_, _)
ConfiguredMask(G, ref) ==
    IF G = {} THEN 0
    ELSE LET i == CHOOSE i \in G : TRUE
         IN  BitOr(IF OverThreshold(g_cell, i, ref) THEN g_cell[i].discharge
                   ELSE 0,
                   ConfiguredMask(G \ {i}, ref))

(***************************************************************************)
(* C1: after every run of the averaging loop, a cell's average_voltage is   *)
(* the truncated mean of the N_SAMPLES entries its history then holds.     *)
(* (The history and the average change in the averaging loop only, so the  *)
(* statement is an invariant of every state.)                              *)
(***************************************************************************)
C1_TruncatedMeanOfHistory ==
    \A i \in Slots :
        Avg(i) = SeqSum(g_cell[i].samples) \div N_SAMPLES

(***************************************************************************)
(* C2: a cell that starts from an all-zero history and is averaged with    *)
(* the same raw voltage v each time has average_voltage = v after the      *)
(* N_SAMPLES-th run.  (After exactly N_SAMPLES runs the history holds all  *)
(* the samples there were: they were all v iff its entries are all v.)     *)
(***************************************************************************)
C2_ConstantInputAfterDepth ==
    \A i \in Populated :
        (/\ n_avg = N_SAMPLES
         /\ \A j \in 1 .. N_SAMPLES :
                g_cell[i].samples[j] = g_cell[i].samples[N_SAMPLES])
        => Avg(i) = g_cell[i].samples[N_SAMPLES]

C4_AveragedBeforeDecision ==
    AfterBalance =>
        /\ n_avg = cycle
        /\ \A i \in Populated : g_cell[i].samples[N_SAMPLES] = g_cell[i].voltage

(***************************************************************************)
(* C5: after balance, the mask bit of every cell of slots 0..3 and 12..15  *)
(* is 1 iff the 16-bit difference between the cell's average and the       *)
(* reference's average exceeds BALANCE_THRESHOLD, whatever the bit was     *)
(* before the call; the masks are a function of the averages alone.        *)
(***************************************************************************)
C5_BitIffOverThreshold ==
    AfterBalance =>
        /\ \A i \in Lower :
              (Bit(g_discharge1, i) = 1)
                  <=> ((Avg(i) - Avg(min_idx)) % W16 > BALANCE_THRESHOLD)
        /\ \A i \in Upper :
              (Bit(g_discharge2, i - 12) = 1)
                  <=> ((Avg(i) - Avg(min_idx)) % W16 > BALANCE_THRESHOLD)

\* balance has cleared a bit that was set before the call and left another
\* one set (the page still holds the masks of the previous iteration)
C5_Witness ==
    /\ AfterBalance
    /\ \E i \in 0 .. 3 :
          Bit(g_bms_page.discharge, i) = 1 /\ Bit(g_discharge1, i) = 0
    /\ \E i \in 0 .. 3 :
          Bit(g_bms_page.discharge, i) = 1 /\ Bit(g_discharge1, i) = 1

(***************************************************************************)
(* C6: after balance, the mask of a group has exactly the configured       *)
(* discharge bits (the discharge field set by init_cells) of the cells     *)
(* whose decision is true, and no bit outside the low four.  init_cells    *)
(* sets the field of the Lower cells only, so the statement is made for    *)
(* the Lower mask.                                                         *)
(***************************************************************************)
C6_ConfiguredBitPositions ==
    AfterBalance =>
        /\ g_discharge1 = ConfiguredMask(Lower, min_idx)
        /\ g_discharge1 < 16
        /\ g_discharge2 < 16

(***************************************************************************)
(* C7: after update_bms_page, positions 0..3 of the page's voltages hold   *)
(* the averages of slots 0..3 and positions 4..7 those of slots 12..15.    *)
(***************************************************************************)
C7_LogicalIndexLayout ==
    AfterPage =>
        \A k \in 0 .. 3 :
            /\ g_bms_page.voltages[k] = Avg(k)
            /\ g_bms_page.voltages[4 + k] = Avg(12 + k)

(***************************************************************************)
(* C8: after update_bms_page, the page's discharge value is the Upper mask *)
(* of this iteration's balance in the high nibble and the Lower mask in    *)
(* the low nibble; it lies in 0..255.                                      *)
(***************************************************************************)
C8_DischargeByte ==
    AfterPage =>
        /\ g_bms_page.discharge
              = (g_discharge2 % 16) * 16 + (g_discharge1 % 16)
        /\ g_bms_page.discharge \in 0 .. 255
        /\ cfg_writes # << >>
        /\ g_discharge1 = cfg_writes[1].value

\* a page whose two nibbles differ and are both non-zero
C8_Witness ==
    /\ AfterPage
    /\ g_discharge1 # 0
    /\ g_discharge2 # 0
    /\ g_discharge1 # g_discharge2
    /\ g_bms_page.discharge \div 16 = g_discharge2

(***************************************************************************)
(* C9: in each of the three packet tables no two entries have the same     *)
(* identifier; the tables have 8, 3 and 9 entries; the length of every     *)
(* telemetry entry is the declared capacity of its page (30, 24, 8); the   *)
(* length found for identifier 0x0B is 30 and for 0x603 it is 6.           *)
(***************************************************************************)
C9_RegistryInvariant ==
    /\ Len(CAN_ID_TABLE) = N_CAN_ID
    /\ Len(TELEM_ID_TABLE) = N_TELEM_ID
    /\ Len(CAN_MISC_TABLE) = N_CAN_MISC
    /\ NoDuplicateId(CAN_ID_TABLE)
    /\ NoDuplicateId(TELEM_ID_TABLE)
    /\ NoDuplicateId(CAN_MISC_TABLE)
    /\ \A k \in 1 .. Len(TELEM_ID_TABLE) :
          TELEM_ID_TABLE[k].len = Len(telem_pages[TELEM_ID_TABLE[k].page])
    /\ [k \in 1 .. Len(TELEM_ID_TABLE) |-> TELEM_ID_TABLE[k].len] = <<30, 24, 8>>
    /\ LenOfId(TELEM_ID_TABLE, 11) = 30
    /\ LenOfId(CAN_ID_TABLE, 1539) = 6

\* the two identifiers of the scenario are entries of the tables, 0x0B and
\* 0x60B are entries of different tables, and the page buffers exist
C9_Witness ==
    /\ \E k \in 1 .. Len(TELEM_ID_TABLE) : TELEM_ID_TABLE[k].id = 11
    /\ \E k \in 1 .. Len(CAN_ID_TABLE) : CAN_ID_TABLE[k].id = 1539
    /\ \E k \in 1 .. Len(CAN_ID_TABLE) : CAN_ID_TABLE[k].id = 1547
    /\ Len(telem_pages["g_bps_voltage_page"]) = 30
    /\ Len(telem_pages["g_bps_temperature_page"]) = 24
    /\ Len(telem_pages["g_bps_cur_bal_stat_page"]) = 8

(***************************************************************************)
(* C10: with depth 4 and threshold 50, after the Lower cells have read     *)
(* 100, 100, 200 and 90 for four iterations from power-up, their averages  *)
(* are 100, 100, 200, 90, the reference is cell 3 and the Lower mask is    *)
(* 0b0100 (only cell 2 is marked).                                         *)
(***************************************************************************)
C10_Scenario ==
    (/\ AfterPage
     /\ n_avg = 4
     /\ \A i \in Lower : \A j \in 1 .. N_SAMPLES :
            g_cell[i].samples[j] = ScenarioLower[i])
    => /\ \A i \in Lower : Avg(i) = ScenarioLower[i]
       /\ min_idx = 3
       /\ g_discharge1 = 4
(***************************************************************************)
(* C11: when several scanned cells share the minimum average, the index    *)
(* get_lowest_voltage_cell_index returns is the last of them in scan order *)
(* (slots 0..3, then 12..15).                                              *)
(***************************************************************************)
C11_LastMinimumWins ==
    AfterBalance =>
        /\ min_idx \in Populated
        /\ \A c \in Populated : Avg(c) >= Avg(min_idx)
        /\ \A c \in Populated : Avg(c) = Avg(min_idx) => c <= min_idx

\* a tie between cells of both groups, won by an Upper cell that is not the
\* last cell scanned
C11_Witness ==
    /\ AfterBalance
    /\ min_idx \in Upper
    /\ min_idx < 15
    /\ \E c \in Lower : Avg(c) = Avg(min_idx)
    /\ \E c \in Upper : c < min_idx /\ Avg(c) = Avg(min_idx)

(***************************************************************************)
(* C12: for both groups, the average of the reference cell used for the    *)
(* group's decisions is at most the average of every member of the group.  *)
(***************************************************************************)
C12_ReferenceAtMostMembers ==
    AfterBalance =>
        \A G \in {Lower, Upper} : \A c \in G : Avg(min_idx) <= Avg(c)

\* the reference is strictly below members of both groups
C12_Witness ==
    /\ AfterBalance
    /\ \E c \in Lower : Avg(min_idx) < Avg(c)
    /\ \E c \in Upper : Avg(min_idx) < Avg(c)

(***************************************************************************)
(* C13: after every balance the mask bit of the cell selected as reference *)
(* is 0, whatever it was before.                                           *)
(***************************************************************************)
C13_ReferenceNotDischarged ==
    AfterBalance =>
        /\ min_idx \in Lower => Bit(g_discharge1, min_idx) = 0
        /\ min_idx \in Upper => Bit(g_discharge2, min_idx - 12) = 0
        /\ min_idx \in Populated

\* the bit of the reference was set by the balance of the iteration before
\* (the page still holds those masks)
C13_Witness ==
    /\ AfterBalance
    /\ min_idx \in Upper
    /\ Bit(g_bms_page.discharge, 4 + (min_idx - 12)) = 1
    /\ Bit(g_discharge2, min_idx - 12) = 0

(***************************************************************************)
(* C14: after the first run of the averaging loop on the all-zero history  *)
(* of a freshly initialised cell with raw voltage v, average_voltage is    *)
(* floor(v / N_SAMPLES).                                                   *)
(***************************************************************************)
C14_WarmUpBias ==
    n_avg = 1 =>
        \A i \in Populated :
            /\ Avg(i) = g_cell[i].samples[N_SAMPLES] \div N_SAMPLES
            /\ pc = "print_discharge_bits" =>
                   /\ g_cell[i].samples[N_SAMPLES] = pack[i]
                   /\ g_cell[i].voltage = pack[i]

\* the first run has given a cell a non-zero average below its reading
C14_Witness ==
    /\ n_avg = 1
    /\ pc = "print_discharge_bits"
    /\ \E i \in Populated : Avg(i) > 0 /\ Avg(i) < g_cell[i].voltage
\* the mask of group G (bit i - base for cell i) that marks the cells whose
\* average is more than BALANCE_THRESHOLD above m
RECURSIVE MaskFrom(_, _, _)
MaskFrom(G, base, m) ==
    IF G = {} THEN 0
    ELSE LET i == CHOOSE i \in G : TRUE
         IN  (IF Avg(i) - m > BALANCE_THRESHOLD THEN Pow2(i - base) ELSE 0)
             + MaskFrom(G \ {i}, base, m)

(***************************************************************************)
(* C15: every call of balance makes exactly two configuration writes, in   *)
(* this order: one while CSBI1 is low and CSBI2 is high, then one while    *)
(* CSBI2 is low and CSBI1 is high; both write the Lower mask g_discharge1, *)
(* so the Upper mask g_discharge2 is not written.                          *)
(***************************************************************************)
C15_LowerMaskWrittenTwice ==
    AfterBalance =>
        /\ Len(cfg_writes) = 2
        /\ cfg_writes[1].csbi1 = 0 /\ cfg_writes[1].csbi2 = 1
        /\ cfg_writes[2].csbi2 = 0 /\ cfg_writes[2].csbi1 = 1
        /\ cfg_writes[1].value = g_discharge1
        /\ cfg_writes[2].value = cfg_writes[1].value
        /\ CSBI1 = 1 /\ CSBI2 = 1

\* the two masks differ and the Upper mask marks a cell: what is written
\* under CSBI2 is not the Upper mask
C15_Witness ==
    /\ AfterBalance
    /\ g_discharge2 # 0
    /\ g_discharge2 # g_discharge1
    /\ cfg_writes[2].value # g_discharge2

(***************************************************************************)
(* C16: a step that changes the millisecond counter g_ms increments it and *)
(* changes nothing else, and every step that changes anything else is a    *)
(* step of the main loop: the timer interrupt, wherever it fires, alters   *)
(* nothing the main loop computes.                                         *)
(***************************************************************************)
C16_TimerOnlyCounts ==
    [][/\ (g_ms' # g_ms) => (g_ms' = g_ms + 1 /\ UNCHANGED MainVars)
       /\ (MainVars' # MainVars) => (MainStep /\ g_ms' = g_ms)]_vars

\* the interrupt has fired and balance has since computed non-zero masks
C16_Witness ==
    /\ g_ms > 0
    /\ AfterBalance
    /\ g_discharge1 # 0
    /\ cycle > 1

(***************************************************************************)
(* C17: the history (samples) and average_voltage of a cell are modified   *)
(* by the averaging loop only: every other step (the read of the raw       *)
(* voltages, balance with its reference selection, decisions and writes,   *)
(* update_bms_page, the delay, the interrupt) leaves them unchanged.       *)
(***************************************************************************)
C17_OnlyAveragingWritesHistory ==
    [][(\E i \in Slots :
            \/ g_cell[i].samples' # g_cell[i].samples
            \/ g_cell[i].average_voltage' # g_cell[i].average_voltage)
        => (pc = "print_cell_voltages" /\ pc' = "print_discharge_bits")]_vars

\* balance and update_bms_page have run on non-zero averages
C17_Witness ==
    /\ AfterPage
    /\ cycle > 1
    /\ \E i \in Lower : Avg(i) > 0 /\ g_bms_page.voltages[i] = Avg(i)
    /\ g_discharge1 # 0

(***************************************************************************)
(* C18: the masks balance computes in an iteration depend only on the      *)
(* averages it finds, which the averaging runs of the earlier iterations   *)
(* produced (this iteration's run has not happened yet): no raw sample of  *)
(* this iteration or a later one enters them, and balance leaves           *)
(* histories and averages as they were.                                    *)
(***************************************************************************)
C18_MasksFromEarlierSamples ==
    [][(pc = "balance" /\ pc' = "print_cell_voltages")
        => /\ n_avg = cycle - 1
           /\ n_avg' = n_avg
           /\ g_discharge1' = MaskFrom(Lower, 0, MinAvg(Populated))
           /\ g_discharge2' = MaskFrom(Upper, 12, MinAvg(Populated))
           /\ \A i \in Slots :
                 /\ g_cell[i].samples' = g_cell[i].samples
                 /\ g_cell[i].average_voltage' = g_cell[i].average_voltage]_vars

\* balance has run on a raw sample that differs from the newest history
\* entry, and has marked a cell whose new raw sample is zero
C18_Witness ==
    /\ AfterBalance
    /\ \E i \in Lower :
          /\ g_cell[i].voltage = 0
          /\ g_cell[i].samples[N_SAMPLES] # 0
          /\ Bit(g_discharge1, i) = 1

(***************************************************************************)
(* C19: the reference is a minimum over all eight scanned cells, so the    *)
(* difference cell average - reference average is never negative: the      *)
(* unsigned 16-bit subtraction does not wrap, and a marked cell is         *)
(* strictly above the reference.                                           *)
(***************************************************************************)
C19_SubtractionNeverWraps ==
    AfterBalance =>
        \A i \in Populated :
            /\ Avg(i) - Avg(min_idx) >= 0
            /\ U16(Avg(i) - Avg(min_idx)) = Avg(i) - Avg(min_idx)
            /\ (i \in Lower /\ Bit(g_discharge1, i) = 1)
                  => Avg(i) > Avg(min_idx) + BALANCE_THRESHOLD
            /\ (i \in Upper /\ Bit(g_discharge2, i - 12) = 1)
                  => Avg(i) > Avg(min_idx) + BALANCE_THRESHOLD

\* a cell of one group is below every cell of the other group, whose
\* decision loop marks a cell and leaves another one unmarked
C19_Witness ==
    /\ AfterBalance
    /\ min_idx \in Lower
    /\ Avg(min_idx) < MinAvg(Upper)
    /\ g_discharge2 # 0
    /\ \E i \in Lower : i # min_idx /\ Bit(g_discharge1, i) = 0

\* the bus-packet entries that point into page pg, and the bytes they cover
EntriesOf(pg) ==
    {k \in 1..Len(CAN_ID_TABLE) : CAN_ID_TABLE[k].page = pg}

Range(k) ==
    CAN_ID_TABLE[k].offset
        .. (CAN_ID_TABLE[k].offset + CAN_ID_TABLE[k].len - 1)

(***************************************************************************)
(* C20: for each telemetry page the bus packets that point into it tile    *)
(* it: their byte ranges [offset, offset + len) are pairwise disjoint, and *)
(* together they are exactly the bytes 0 .. length - 1 of the page, where  *)
(* the length is the telemetry length of the page (30, 24 and 8).          *)
(***************************************************************************)
C20_PacketsTilePages ==
    \A t \in 1..Len(TELEM_ID_TABLE) :
        LET pg == TELEM_ID_TABLE[t].page
        IN  /\ Len(telem_pages[pg]) = TELEM_ID_TABLE[t].len
            /\ \A j, k \in EntriesOf(pg) :
                  j # k => Range(j) \cap Range(k) = {}
            /\ UNION {Range(k) : k \in EntriesOf(pg)}
                  = 0 .. (Len(telem_pages[pg]) - 1)
            /\ \A k \in 1..Len(CAN_ID_TABLE) :
                  CAN_ID_TABLE[k].page \in DOMAIN telem_pages

\* the three pages exist with their lengths, the voltage page is covered by
\* four packets the last of which is the short one ending at byte 30
C20_Witness ==
    /\ Len(telem_pages["g_bps_voltage_page"]) = 30
    /\ Len(telem_pages["g_bps_temperature_page"]) = 24
    /\ Len(telem_pages["g_bps_cur_bal_stat_page"]) = 8
    /\ Cardinality(EntriesOf("g_bps_voltage_page")) = 4
    /\ \E k \in EntriesOf("g_bps_voltage_page") :
          /\ CAN_ID_TABLE[k].len = 6
          /\ CAN_ID_TABLE[k].offset + CAN_ID_TABLE[k].len
                = Len(telem_pages["g_bps_voltage_page"])
====
